---- MODULE Spec2Model ----
(***************************************************************************)
(* Item registry backend (api/views.py): payload validation and the        *)
(* ownership-scoped create / read / update / delete handlers of            *)
(* ItemsAPIView, run by concurrent requests against one items table.       *)
(*                                                                         *)
(* JSON / Python values are tagged records, strings are tuples of          *)
(* one-character strings:                                                  *)
(*   None  [t |-> "none"]        str   [t |-> "str",  v |-> <<"a","b">>]   *)
(*   int   [t |-> "num", v |-> 5] list [t |-> "list", v |-> << ... >>]     *)
(*   UUID  [t |-> "uuid", v |-> n]   (the n-th identifier the store issued)*)
(*                                                                         *)
(* The characters of the inputs are blanks, commas, decimal digits and     *)
(* letters; the string operators are those of Python on that alphabet.     *)
(* The store is the filter / insert / update / delete interface the        *)
(* handlers call: a filter compares typed values, .single() answers with   *)
(* no data when no row matches, insert and update answer with the rows     *)
(* written.  Every request is a process of its own; a handler takes one    *)
(* step per store round trip.                                              *)
(***************************************************************************)
EXTENDS Integers, Sequences, FiniteSets, TLC

\* ------------------------------------------------------------------ bounds
MaxItems == 3
MaxNow == 1

\* ------------------------------------------------------------ Python values
None == [t |-> "none"]
Str(s) == [t |-> "str", v |-> s]
Num(n) == [t |-> "num", v |-> n]
List(l) == [t |-> "list", v |-> l]
Uuid(n) == [t |-> "uuid", v |-> n]
Bool(b) == [t |-> "bool", v |-> b]

\* bool(value)
Truthy(x) ==
  CASE x.t = "none" -> FALSE
    [] x.t = "str" -> x.v # <<>>
    [] x.t = "list" -> x.v # <<>>
    [] x.t = "num" -> x.v # 0
    [] x.t = "bool" -> x.v
    [] x.t = "float" -> x.v # 0
    [] OTHER -> TRUE

IsSpace(c) == c = " "

RECURSIVE LStrip(_)
LStrip(s) == IF s = <<>> THEN <<>>
             ELSE IF IsSpace(Head(s)) THEN LStrip(Tail(s)) ELSE s

RECURSIVE RStrip(_)
RStrip(s) == IF s = <<>> THEN <<>>
             ELSE IF IsSpace(s[Len(s)]) THEN RStrip(SubSeq(s, 1, Len(s) - 1)) ELSE s

\* str.strip()
Strip(s) == RStrip(LStrip(s))

\* the upper-case letters of the inputs
UpperToLower == [S |-> "s", T |-> "t", A |-> "a", X |-> "x"]

LowerChar(c) == IF c \in DOMAIN UpperToLower THEN UpperToLower[c] ELSE c

RECURSIVE Lower(_)
\* str.lower()
Lower(s) == IF s = <<>> THEN <<>> ELSE <<LowerChar(Head(s))>> \o Lower(Tail(s))

RECURSIVE SplitFrom(_, _, _)
SplitFrom(s, sep, cur) ==
  IF s = <<>> THEN <<cur>>
  ELSE IF Head(s) = sep THEN <<cur>> \o SplitFrom(Tail(s), sep, <<>>)
  ELSE SplitFrom(Tail(s), sep, Append(cur, Head(s)))

\* str.split(sep)
Split(s, sep) == SplitFrom(s, sep, <<>>)

Digits == <<"0", "1", "2", "3", "4", "5", "6", "7", "8", "9">>

DigitValue(c) == CHOOSE d \in 0..9 : Digits[d + 1] = c

IsDigit(c) == \E d \in 0..9 : Digits[d + 1] = c

RECURSIVE DecimalValue(_, _)
DecimalValue(s, acc) ==
  IF s = <<>> THEN acc ELSE DecimalValue(Tail(s), 10 * acc + DigitValue(Head(s)))

RECURSIVE DecimalDigits(_)
DecimalDigits(n) ==
  IF n < 10 THEN <<Digits[n + 1]>> ELSE DecimalDigits(n \div 10) \o <<Digits[(n % 10) + 1]>>

\* str(value) for the str and int values the handlers convert
PyStr(x) ==
  CASE x.t = "str" -> x.v
    [] x.t = "num" -> IF x.v < 0 THEN <<"-">> \o DecimalDigits(0 - x.v)
                      ELSE DecimalDigits(x.v)
    [] x.t = "none" -> <<"N", "o", "n", "e">>
    [] OTHER -> <<"[", "]">>

\* ------------------------------------------------- validation helpers
\* float(value) succeeds: a number, or a string that is a decimal literal
\* once surrounding whitespace is removed
FloatParses(x) ==
  CASE x.t = "num" -> TRUE
    [] x.t = "str" -> /\ Strip(x.v) # <<>>
                      /\ \A i \in 1..Len(Strip(x.v)) : IsDigit(Strip(x.v)[i])
    [] OTHER -> FALSE

FloatValue(x) == IF x.t = "num" THEN x.v ELSE DecimalValue(Strip(x.v), 0)

\* the fee that is passed to float() is left as it is
_coerce_fee_verbatim(value) ==
  IF value = None \/ value = Str(<<>>) THEN None ELSE value

_coerce_fee(value) ==
  IF value = None \/ value = Str(<<>>) THEN None
  ELSE IF FloatParses(value) THEN Num(FloatValue(value))
  ELSE None

RECURSIVE StrEach(_)
StrEach(l) == IF l = <<>> THEN <<>> ELSE <<Str(PyStr(Head(l)))>> \o StrEach(Tail(l))

RECURSIVE StripNonEmpty(_)
StripNonEmpty(parts) ==
  IF parts = <<>> THEN <<>>
  ELSE IF Strip(Head(parts)) # <<>>
       THEN <<Str(Strip(Head(parts)))>> \o StripNonEmpty(Tail(parts))
       ELSE StripNonEmpty(Tail(parts))

_coerce_images(value) ==
  IF value = None THEN None
  ELSE IF value.t = "list" THEN List(StrEach(value.v))
  ELSE IF value.t = "str"
       THEN IF StripNonEmpty(Split(value.v, ",")) # <<>>
            THEN List(StripNonEmpty(Split(value.v, ",")))
            ELSE None
  ELSE None

sSafe == <<"s", "a", "f", "e">>
sStolen == <<"s", "t", "o", "l", "e", "n">>
sUnknown == <<"u", "n", "k", "n", "o", "w", "n">>
allowed == {sSafe, sStolen, sUnknown}

\* the membership test left out
_validate_status_unchecked(value) ==
  IF value = None THEN None ELSE Str(Lower(PyStr(value)))

_validate_status(value) ==
  IF value = None THEN None
  ELSE IF Lower(PyStr(value)) \in allowed THEN Str(Lower(PyStr(value)))
  ELSE None


RECURSIVE MissingOf(_, _)
\* the required fields, in the order checked, that are empty after trimming
MissingOf(fields, trimmed) ==
  IF fields = <<>> THEN <<>>
  ELSE IF trimmed[Head(fields)] = <<>>
       THEN <<Head(fields)>> \o MissingOf(Tail(fields), trimmed)
       ELSE MissingOf(Tail(fields), trimmed)

\* data.get(key) or ""
GetOrEmpty(data, key) ==
  IF key \in DOMAIN data /\ Truthy(data[key]) THEN data[key] ELSE Str(<<>>)

\* the client's user_id copied through like the optional strings
OptionalStringFieldsWithUserId ==
  {"description", "category", "contact_info", "owner", "image_url", "user_id"}

OptionalStringFields == {"description", "category", "contact_info", "owner", "image_url"}

PayloadKeys(data, trimmed) ==
  {k \in {"name", "serial_number"} : trimmed[k] # <<>>}
    \cup (DOMAIN data \cap (OptionalStringFields \cup {"images", "fee", "status"}))
    \cup {"updated_at"}

PayloadValue(data, trimmed, k, clock) ==
  CASE k \in {"name", "serial_number"} -> Str(trimmed[k])
    [] k \in OptionalStringFields -> data[k]
    [] k = "images" -> _coerce_images(data[k])
    [] k = "fee" -> _coerce_fee(data[k])
    [] k = "status" -> _validate_status(data[k])
    [] OTHER -> Num(clock)

Trimmed(data) ==
  [k \in {"name", "serial_number"} |-> Strip(GetOrEmpty(data, k).v)]

\* _build_payload: [kind |-> "raise"] when .strip() is called on a value that
\* is not a string, [kind |-> "err", error |-> e] for a validation error,
\* [kind |-> "ok", payload |-> p] otherwise
_build_payload(data, require_required_fields, clock) ==
  IF \E k \in {"name", "serial_number"} : GetOrEmpty(data, k).t # "str"
  THEN [kind |-> "raise"]
  ELSE IF require_required_fields
          /\ MissingOf(<<"name", "serial_number">>, Trimmed(data)) # <<>>
  THEN [kind |-> "err",
        error |-> [detail |-> "Missing required field(s)",
                   fields |-> MissingOf(<<"name", "serial_number">>, Trimmed(data))]]
  ELSE IF "status" \in DOMAIN data /\ _validate_status(data["status"]) = None
  THEN [kind |-> "err",
        error |-> [detail |-> "Invalid status. Must be one of: safe, stolen, unknown"]]
  ELSE [kind |-> "ok",
        payload |-> [k \in PayloadKeys(data, Trimmed(data)) |->
                       PayloadValue(data, Trimmed(data), k, clock)]]

\* ------------------------------------------------------------ the items table
Columns ==
  {"id", "user_id", "created_at", "updated_at", "name", "serial_number",
   "description", "category", "contact_info", "owner", "image_url",
   "images", "fee", "status"}

\* insert(payload): the store assigns id and created_at, other columns are null
NewRow(payload, n, clock) ==
  [c \in Columns |->
     IF c = "id" THEN Uuid(n)
     ELSE IF c = "created_at" THEN Num(clock)
     ELSE IF c \in DOMAIN payload THEN payload[c]
     ELSE None]

\* a full replace: the columns the payload lacks are reset
Replaced(row, payload) ==
  [c \in Columns |->
     IF c \in DOMAIN payload THEN payload[c]
     ELSE IF c \in {"id", "user_id", "created_at"} THEN row[c]
     ELSE None]

\* update(payload) of one row: the payload's columns are overwritten
Patched(row, payload) ==
  [c \in Columns |-> IF c \in DOMAIN payload THEN payload[c] ELSE row[c]]

\* ------------------------------------------------------------------ inputs
Users == {<<"a">>, <<"b">>}

\* request.user when authenticated
Callers == {[id |-> u, is_authenticated |-> TRUE] : u \in Users}

Anonymous == [id |-> <<>>, is_authenticated |-> FALSE]

\* the <uuid:item_id> of the route /items/<id>/
ItemIds == {Uuid(n) : n \in 1..MaxItems}

\* the requests of a run, named in the order in which they arrive
Arrival == <<"r1", "r2", "r3">>

Requests == {Arrival[k] : k \in DOMAIN Arrival}

\* os.environ with PAYSTACK_SECRET_KEY and PAYSTACK_CALLBACK_URL set
Configured ==
  [PAYSTACK_SECRET_KEY |-> Str(<<"k">>), PAYSTACK_CALLBACK_URL |-> Str(<<"u">>)]

\* no client is paging
Idle == [state |-> "idle"]

\* ------------------------------------------------------------------- state
VARIABLES
  store,        \* the items table: issue number of a row -> row
  nextId,       \* number of the next identifier the store issues
  now,          \* the clock read by timezone.now() and by the store
  pc,           \* per request: "new", the store call it is about to make, or "done"
  req,          \* per request: method, caller, route id and body once it has arrived
  resp,         \* per request: the response returned
  payload,      \* per request: the payload built by an update or a payment in flight
  total_count,  \* per request: the count read by a list in flight
  calls,        \* per request: the store and gateway calls it has issued
  environ,      \* os.environ: the gateway credential and callback URL of the process
  summary,      \* per request: the figures read so far by an analytics call in flight
  client,       \* a client that pages through a listing by following next
  gateway       \* per request: what it sent to the payment gateway and the reply

vars ==
  <<store, nextId, now, pc, req, resp, payload, total_count, calls, environ, summary,
    client, gateway>>

Req(method, user, item_id, data) ==
  [method |-> method, user |-> user, item_id |-> item_id, data |-> data]

\* ResponseMixin.response: the uniform envelope with its HTTP status
response(status_code, error, data, count, next, previous) ==
  [status_code |-> status_code, error |-> error, data |-> data,
   count |-> count, next |-> next, previous |-> previous]

Detail(text) == [detail |-> text]

ErrorResponse(status_code, error) == response(status_code, error, None, None, None, None)

DataResponse(status_code, data) == response(status_code, None, data, None, None, None)

\* the filter on user_id left out
OwnedRowsOfAnyUser(item_id, user) == {n \in DOMAIN store : store[n]["id"] = item_id}

\* .eq('id', item_id).eq('user_id', str(user.id)): the issue numbers of the matching rows
OwnedRows(item_id, user) ==
  {n \in DOMAIN store : store[n]["id"] = item_id /\ store[n]["user_id"] = Str(user.id)}

\* .single(): the one matching row, no data when nothing matches
Single(rows) == IF rows = {} THEN None ELSE store[CHOOSE n \in rows : TRUE]

\* int(item_id) of a UUID: its integer value, a number and no longer a UUID
PyInt(item_id) == Num(item_id.v)

\* request p arrives, after the requests named before it
Begin(p, r) ==
  /\ pc[p] = "new"
  /\ \A k \in DOMAIN Arrival : Arrival[k] = p => \A j \in 1..(k - 1) : pc[Arrival[j]] # "new"
  /\ req' = [req EXCEPT ![p] = r]

Return(p, r, issued) ==
  /\ pc' = [pc EXCEPT ![p] = "done"]
  /\ resp' = [resp EXCEPT ![p] = r]
  /\ calls' = [calls EXCEPT ![p] = issued]

Goto(p, label, issued) ==
  /\ pc' = [pc EXCEPT ![p] = label]
  /\ resp' = [resp EXCEPT ![p] = None]
  /\ calls' = [calls EXCEPT ![p] = issued]

Init ==
  /\ store = <<>>
  /\ nextId = 1
  /\ now = 0
  /\ pc = [p \in Requests |-> "new"]
  /\ req = [p \in Requests |-> None]
  /\ resp = [p \in Requests |-> None]
  /\ payload = [p \in Requests |-> None]
  /\ total_count = [p \in Requests |-> 0]
  /\ calls = [p \in Requests |-> <<>>]
  /\ environ = Configured
  /\ summary = [p \in Requests |-> None]
  /\ client = Idle
  /\ gateway = [p \in Requests |-> None]

\* time passes
Tick ==
  /\ now < MaxNow
  /\ now' = now + 1
  /\ UNCHANGED <<store, nextId, pc, req, resp, payload, total_count, calls, environ, summary, client, gateway>>

\* ItemsAPIView.post: POST /items/
post(p, user, data) ==
  /\ Begin(p, Req("POST", user, None, data))
  /\ UNCHANGED <<now, payload, total_count, environ, summary, client, gateway>>
  /\ IF ~user.is_authenticated
     THEN /\ Return(p, ErrorResponse(401, Detail("Authentication required")), <<>>)
          /\ UNCHANGED <<store, nextId>>
     ELSE LET built == _build_payload(data, TRUE, now) IN
          IF built.kind = "raise"
          THEN /\ Return(p, ErrorResponse(500, Detail("exception")), <<>>)
               /\ UNCHANGED <<store, nextId>>
          ELSE IF built.kind = "err"
          THEN /\ Return(p, ErrorResponse(400, built.error), <<>>)
               /\ UNCHANGED <<store, nextId>>
          ELSE /\ nextId <= MaxItems
               /\ LET row == NewRow([k \in DOMAIN built.payload \cup {"user_id"} |->
                                       IF k = "user_id" THEN Str(user.id)
                                       ELSE built.payload[k]],
                                    nextId, now)
                  IN /\ store' = [n \in DOMAIN store \cup {nextId} |->
                                    IF n = nextId THEN row ELSE store[n]]
                     /\ nextId' = nextId + 1
                     /\ Return(p, DataResponse(201, row), <<"insert">>)

\* int(value) succeeds: an int, or a string that is an optionally signed
\* decimal literal once surrounding whitespace is removed
Unsigned(s) == IF s # <<>> /\ Head(s) \in {"-", "+"} THEN Tail(s) ELSE s

IntParses(x) ==
  CASE x.t = "num" -> TRUE
    [] x.t = "str" -> /\ Unsigned(Strip(x.v)) # <<>>
                      /\ \A i \in 1..Len(Unsigned(Strip(x.v))) :
                           IsDigit(Unsigned(Strip(x.v))[i])
    [] OTHER -> FALSE

IntValue(x) ==
  IF x.t = "num" THEN x.v
  ELSE IF Head(Strip(x.v)) = "-" THEN 0 - DecimalValue(Unsigned(Strip(x.v)), 0)
  ELSE DecimalValue(Unsigned(Strip(x.v)), 0)

_parse_int(value, default) == IF IntParses(value) THEN IntValue(value) ELSE default

\* query_params.get(key)
Param(params, key) == IF key \in DOMAIN params THEN params[key] ELSE None

Max(a, b) == IF a >= b THEN a ELSE b

Min(a, b) == IF a <= b THEN a ELSE b

\* column ILIKE %query%
Ilike(value, query) ==
  /\ value.t = "str"
  /\ \E i \in 1..(Len(value.v) - Len(query) + 1) :
       SubSeq(Lower(value.v), i, i + Len(query) - 1) = Lower(query)

\* the filter on user_id left out
ListRowsOfAnyUser(user, query) ==
  {n \in DOMAIN store :
     query # <<>> => Ilike(store[n]["name"], query) \/ Ilike(store[n]["description"], query)}

\* .eq('user_id', str(user.id)), and the or_ of ilike filters when query is not empty
ListRows(user, query) ==
  {n \in DOMAIN store :
     /\ store[n]["user_id"] = Str(user.id)
     /\ query # <<>> => Ilike(store[n]["name"], query) \/ Ilike(store[n]["description"], query)}

\* .order('created_at', desc=True): the orders the store may return rows in
Ordered(rows) ==
  {s \in [1..Cardinality(rows) -> rows] :
     /\ \A i, j \in 1..Cardinality(rows) : i < j => s[i] # s[j]
     /\ \A i, j \in 1..Cardinality(rows) :
          i < j => store[s[i]]["created_at"].v >= store[s[j]]["created_at"].v}

\* .range(from, to): the rows at 0-based positions from..to of the ordered result
Range(s, from, to) ==
  [i \in 1..Max(Min(to + 1, Len(s)) - from, 0) |-> store[s[from + i]]]

ListQuery(params) == Strip(GetOrEmpty(params, "query").v)

\* ItemsAPIView.get: GET /items/<id>/ answers at once, GET /items/ reads the count
get(p, user, item_id, params) ==
  /\ Begin(p, Req("GET", user, item_id, params))
  /\ UNCHANGED <<store, nextId, now, payload, environ, summary, client, gateway>>
  /\ IF ~user.is_authenticated
     THEN /\ Return(p, ErrorResponse(401, Detail("Authentication required")), <<>>)
          /\ UNCHANGED total_count
     ELSE IF item_id # None
     THEN /\ UNCHANGED total_count
          /\ IF Single(OwnedRows(PyInt(item_id), user)) = None
             THEN Return(p, ErrorResponse(404, Detail("Item not found")), <<"select">>)
             ELSE Return(p, DataResponse(200, Single(OwnedRows(PyInt(item_id), user))),
                         <<"select">>)
     ELSE /\ total_count' = [total_count EXCEPT ![p] =
                               Cardinality(ListRows(user, ListQuery(params)))]
          /\ Goto(p, "get_data", <<"select">>)

\* ItemsAPIView.get, the data query of GET /items/ and the page it returns
get_data(p) ==
  /\ pc[p] = "get_data"
  /\ UNCHANGED <<store, nextId, now, req, payload, total_count, environ, summary, client, gateway>>
  /\ LET limit == _parse_int(Param(req[p].data, "limit"), 30)
         offset == _parse_int(Param(req[p].data, "offset"), 0)
     IN \E s \in Ordered(ListRows(req[p].user, ListQuery(req[p].data))) :
          Return(p,
                 response(200, None,
                          List(Range(s, offset, Max(offset + limit - 1, offset))),
                          Num(total_count[p]),
                          IF offset + limit < total_count[p] THEN Num(offset + limit) ELSE None,
                          IF offset > 0 THEN Num(offset - limit) ELSE None),
                 Append(calls[p], "select"))

\* the validation moved before the existence + ownership select
patch_validating_first(p, user, item_id, data) ==
  /\ Begin(p, Req("PATCH", user, item_id, data))
  /\ UNCHANGED <<store, nextId, now, total_count, environ, summary, client, gateway>>
  /\ IF ~user.is_authenticated
     THEN /\ Return(p, ErrorResponse(401, Detail("Authentication required")), <<>>)
          /\ UNCHANGED payload
     ELSE IF item_id = None
     THEN /\ Return(p, ErrorResponse(400, Detail("Item id is required")), <<>>)
          /\ UNCHANGED payload
     ELSE LET built == _build_payload(data, FALSE, now) IN
          IF built.kind = "raise"
          THEN /\ Return(p, ErrorResponse(500, Detail("exception")), <<>>)
               /\ UNCHANGED payload
          ELSE IF built.kind = "err"
          THEN /\ Return(p, ErrorResponse(400, built.error), <<>>)
               /\ UNCHANGED payload
          ELSE IF Single(OwnedRows(item_id, user)) = None
          THEN /\ Return(p, ErrorResponse(404, Detail("Item not found")), <<"select">>)
               /\ UNCHANGED payload
          ELSE /\ payload' = [payload EXCEPT ![p] = built.payload]
               /\ Goto(p, "patch_update", <<"select">>)

\* ItemsAPIView.patch: the existence + ownership select and the validation of PATCH /items/<id>/
patch(p, user, item_id, data) ==
  /\ Begin(p, Req("PATCH", user, item_id, data))
  /\ UNCHANGED <<store, nextId, now, total_count, environ, summary, client, gateway>>
  /\ IF ~user.is_authenticated
     THEN /\ Return(p, ErrorResponse(401, Detail("Authentication required")), <<>>)
          /\ UNCHANGED payload
     ELSE IF item_id = None
     THEN /\ Return(p, ErrorResponse(400, Detail("Item id is required")), <<>>)
          /\ UNCHANGED payload
     ELSE IF Single(OwnedRows(item_id, user)) = None
     THEN /\ Return(p, ErrorResponse(404, Detail("Item not found")), <<"select">>)
          /\ UNCHANGED payload
     ELSE LET built == _build_payload(data, FALSE, now) IN
          IF built.kind = "raise"
          THEN /\ Return(p, ErrorResponse(500, Detail("exception")), <<"select">>)
               /\ UNCHANGED payload
          ELSE IF built.kind = "err"
          THEN /\ Return(p, ErrorResponse(400, built.error), <<"select">>)
               /\ UNCHANGED payload
          ELSE IF DOMAIN built.payload = {}
          THEN /\ Return(p, ErrorResponse(400, Detail("No valid fields to update")),
                         <<"select">>)
               /\ UNCHANGED payload
          ELSE /\ payload' = [payload EXCEPT ![p] = built.payload]
               /\ Goto(p, "patch_update", <<"select">>)

\* ItemsAPIView.patch: the ownership-scoped update
patch_update(p) ==
  /\ pc[p] = "patch_update"
  /\ UNCHANGED <<nextId, now, req, total_count, environ, summary, client, gateway>>
  /\ store' = [n \in DOMAIN store |->
                 IF n \in OwnedRows(req[p].item_id, req[p].user)
                 THEN Patched(store[n], payload[p]) ELSE store[n]]
  /\ payload' = [payload EXCEPT ![p] = None]
  /\ IF OwnedRows(req[p].item_id, req[p].user) # {}
     THEN Return(p, DataResponse(200, Patched(Single(OwnedRows(req[p].item_id, req[p].user)),
                                              payload[p])),
                 Append(calls[p], "update"))
     ELSE Goto(p, "patch_refetch", Append(calls[p], "update"))

\* ItemsAPIView.patch: the re-fetch when the update returned no row
patch_refetch(p) ==
  /\ pc[p] = "patch_refetch"
  /\ UNCHANGED <<store, nextId, now, req, payload, total_count, environ, summary, client, gateway>>
  /\ Return(p, DataResponse(200, Single(OwnedRows(req[p].item_id, req[p].user))),
            Append(calls[p], "select"))

\* ItemsAPIView._put_or_patch: the existence + ownership select and the validation of PUT /items/<id>/
_put_or_patch(p, user, item_id, data) ==
  /\ Begin(p, Req("PUT", user, item_id, data))
  /\ UNCHANGED <<store, nextId, now, total_count, environ, summary, client, gateway>>
  /\ IF ~user.is_authenticated
     THEN /\ Return(p, ErrorResponse(401, Detail("Authentication required")), <<>>)
          /\ UNCHANGED payload
     ELSE IF item_id = None
     THEN /\ Return(p, ErrorResponse(400, Detail("Item id is required")), <<>>)
          /\ UNCHANGED payload
     ELSE IF Single(OwnedRows(item_id, user)) = None
     THEN /\ Return(p, ErrorResponse(404, Detail("Item not found")), <<"select">>)
          /\ UNCHANGED payload
     ELSE LET built == _build_payload(data, TRUE, now) IN
          IF built.kind = "raise"
          THEN /\ Return(p, ErrorResponse(500, Detail("exception")), <<"select">>)
               /\ UNCHANGED payload
          ELSE IF built.kind = "err"
          THEN /\ Return(p, ErrorResponse(400, built.error), <<"select">>)
               /\ UNCHANGED payload
          ELSE IF DOMAIN built.payload = {}
          THEN /\ Return(p, ErrorResponse(400, Detail("No valid fields to update")),
                         <<"select">>)
               /\ UNCHANGED payload
          ELSE /\ payload' = [payload EXCEPT ![p] = built.payload]
               /\ Goto(p, "_put_or_patch_update", <<"select">>)

\* ItemsAPIView._put_or_patch: the ownership-scoped update
_put_or_patch_update(p) ==
  /\ pc[p] = "_put_or_patch_update"
  /\ UNCHANGED <<nextId, now, req, total_count, environ, summary, client, gateway>>
  /\ store' = [n \in DOMAIN store |->
                 IF n \in OwnedRows(req[p].item_id, req[p].user)
                 THEN Patched(store[n], payload[p]) ELSE store[n]]
  /\ payload' = [payload EXCEPT ![p] = None]
  /\ IF OwnedRows(req[p].item_id, req[p].user) # {}
     THEN Return(p, DataResponse(200, Patched(Single(OwnedRows(req[p].item_id, req[p].user)),
                                              payload[p])),
                 Append(calls[p], "update"))
     ELSE Goto(p, "_put_or_patch_refetch", Append(calls[p], "update"))

\* ItemsAPIView._put_or_patch: the re-fetch when the update returned no row
_put_or_patch_refetch(p) ==
  /\ pc[p] = "_put_or_patch_refetch"
  /\ UNCHANGED <<store, nextId, now, req, payload, total_count, environ, summary, client, gateway>>
  /\ Return(p, DataResponse(200, Single(OwnedRows(req[p].item_id, req[p].user))),
            Append(calls[p], "select"))

\* the existence + ownership select left out
delete_unchecked(p, user, item_id) ==
  /\ Begin(p, Req("DELETE", user, item_id, None))
  /\ UNCHANGED <<store, nextId, now, payload, total_count, environ, summary, client, gateway>>
  /\ IF ~user.is_authenticated
     THEN Return(p, ErrorResponse(401, Detail("Authentication required")), <<>>)
     ELSE IF item_id = None
     THEN Return(p, ErrorResponse(400, Detail("Item id is required")), <<>>)
     ELSE Goto(p, "delete_delete", <<>>)

\* ItemsAPIView.delete: the existence + ownership select of DELETE /items/<id>/
delete(p, user, item_id) ==
  /\ Begin(p, Req("DELETE", user, item_id, None))
  /\ UNCHANGED <<store, nextId, now, payload, total_count, environ, summary, client, gateway>>
  /\ IF ~user.is_authenticated
     THEN Return(p, ErrorResponse(401, Detail("Authentication required")), <<>>)
     ELSE IF item_id = None
     THEN Return(p, ErrorResponse(400, Detail("Item id is required")), <<>>)
     ELSE IF Single(OwnedRows(item_id, user)) = None
     THEN Return(p, ErrorResponse(404, Detail("Item not found")), <<"select">>)
     ELSE Goto(p, "delete_delete", <<"select">>)

\* ItemsAPIView.delete: the ownership-scoped delete
delete_delete(p) ==
  /\ pc[p] = "delete_delete"
  /\ UNCHANGED <<nextId, now, req, payload, total_count, environ, summary, client, gateway>>
  /\ store' = [n \in DOMAIN store \ OwnedRows(req[p].item_id, req[p].user) |-> store[n]]
  /\ Return(p, DataResponse(200, [id |-> req[p].item_id]), Append(calls[p], "delete"))

\* ------------------------------------------------------- registry search
SearchFields == {"query", "category", "status", "serial_number"}

\* (data.get(key) or "").strip(), the status lower-cased as well
SearchFilter(data, key) ==
  IF key = "status" THEN Lower(Strip(GetOrEmpty(data, key).v))
  ELSE Strip(GetOrEmpty(data, key).v)

\* the rows of all users that pass the or_ of ilike filters and the eq filters
SearchRows(data) ==
  {n \in DOMAIN store :
     /\ SearchFilter(data, "query") # <<>> =>
          \E c \in {"name", "description", "category", "serial_number"} :
            Ilike(store[n][c], SearchFilter(data, "query"))
     /\ \A c \in {"category", "status", "serial_number"} :
          SearchFilter(data, c) # <<>> => store[n][c] = Str(SearchFilter(data, c))}

\* SearchRegistry.post: POST /registry/search/ checks the status and reads the count
SearchRegistry_post(p, data) ==
  /\ Begin(p, Req("POST /registry/search/", Anonymous, None, data))
  /\ UNCHANGED <<store, nextId, now, payload, environ, summary, client, gateway>>
  /\ IF \E k \in SearchFields : GetOrEmpty(data, k).t # "str"
     THEN /\ Return(p, ErrorResponse(500, Detail("exception")), <<>>)
          /\ UNCHANGED total_count
     ELSE IF /\ SearchFilter(data, "status") # <<>>
             /\ SearchFilter(data, "status") \notin allowed
     THEN /\ Return(p,
                    ErrorResponse(400,
                                  Detail("Invalid status. Must be one of: safe, stolen, unknown")),
                    <<>>)
          /\ UNCHANGED total_count
     ELSE /\ total_count' = [total_count EXCEPT ![p] = Cardinality(SearchRows(data))]
          /\ Goto(p, "SearchRegistry_post_data", <<"select">>)

\* SearchRegistry.post, the data query and the page it returns
SearchRegistry_post_data(p) ==
  /\ pc[p] = "SearchRegistry_post_data"
  /\ UNCHANGED <<store, nextId, now, req, payload, total_count, environ, summary, client, gateway>>
  /\ LET limit == _parse_int(Param(req[p].data, "limit"), 30)
         offset == _parse_int(Param(req[p].data, "offset"), 0)
     IN \E s \in Ordered(SearchRows(req[p].data)) :
          Return(p,
                 response(200, None,
                          List(Range(s, offset, Max(offset + limit - 1, offset))),
                          Num(total_count[p]),
                          IF offset + limit < total_count[p] THEN Num(offset + limit) ELSE None,
                          IF offset > 0 THEN Num(offset - limit) ELSE None),
                 Append(calls[p], "select"))

\* ---------------------------------------------------------------- analytics
\* a float with two decimals, held in hundredths
Float(h) == [t |-> "float", v |-> h]

\* timedelta(days=30), the clock counting days
timedelta_days == 30

\* the [:5] of top_categories and the limit(5) of recent_items
TopN == 5

\* round(100 * n / total, 2) in hundredths: the nearest hundredth, the even one of
\* two equally near (the double quotient of counts this small is never that close
\* to a tie that its rounding could differ)
Round2(n, total) ==
  LET floor == (10000 * n) \div total
      rest == (10000 * n) % total
  IN IF 2 * rest < total THEN floor
     ELSE IF 2 * rest > total THEN floor + 1
     ELSE IF floor % 2 = 0 THEN floor ELSE floor + 1

\* the quotient cut off after two decimals
pct_truncated(n, total) ==
  IF total > 0 THEN Float((10000 * n) \div total) ELSE Float(0)

\* pct(n) of ItemsAnalyticsAPIView.get, total being the count read first
pct(n, total) == IF total > 0 THEN Float(Round2(n, total)) ELSE Float(0)

\* .eq("user_id", user_id)
UserRows(user) == {n \in DOMAIN store : store[n]["user_id"] = Str(user.id)}

\* the statuses in the order in which _count_status is called
CountedStatuses == <<sSafe, sStolen, sUnknown>>

\* .gte("created_at", thirty_days_ago)
Since30Days(rows) == {n \in rows : store[n]["created_at"].v >= now - timedelta_days}

\* the keys of category_counts: str(cat) of the categories that are not empty
Categories(rows) ==
  {PyStr(store[n]["category"]) : n \in {m \in rows : Truthy(store[m]["category"])}}

CategoryCount(rows, k) ==
  Cardinality({n \in rows : Truthy(store[n]["category"]) /\ PyStr(store[n]["category"]) = k})

\* sorted(..., key=count, reverse=True)[:5]: categories of equal count stand in the
\* order in which the store returned their first rows, which is any order
TopCategories(rows) ==
  {[i \in 1..Min(TopN, Cardinality(Categories(rows))) |->
      [category |-> s[i], count |-> CategoryCount(rows, s[i])]] :
     s \in {t \in [1..Cardinality(Categories(rows)) -> Categories(rows)] :
              /\ \A i, j \in DOMAIN t : i < j => t[i] # t[j]
              /\ \A i, j \in DOMAIN t :
                   i < j => CategoryCount(rows, t[i]) >= CategoryCount(rows, t[j])}}

recent_fields ==
  {"id", "name", "status", "category", "created_at", "image_url", "serial_number"}

\* .select(recent_fields).order("created_at", desc=True).limit(5)
RecentItems(s) ==
  [i \in 1..Min(TopN, Len(s)) |-> [c \in recent_fields |-> store[s[i]][c]]]

\* the greatest updated_at of the rows, None when there is no row
LastUpdatedAt(rows) ==
  IF rows = {} THEN None
  ELSE store[CHOOSE n \in rows :
               \A m \in rows : store[n]["updated_at"].v >= store[m]["updated_at"].v]["updated_at"]

\* ItemsAnalyticsAPIView.get: GET /items/analytics/ reads the caller's total
ItemsAnalyticsAPIView_get(p, user) ==
  /\ Begin(p, Req("GET /items/analytics/", user, None, <<>>))
  /\ UNCHANGED <<store, nextId, now, payload, total_count, environ, client, gateway>>
  /\ IF ~user.is_authenticated
     THEN /\ Return(p, ErrorResponse(401, Detail("Authentication required")), <<>>)
          /\ UNCHANGED summary
     ELSE /\ summary' = [summary EXCEPT ![p] =
                           [total |-> Cardinality(UserRows(user)), counts |-> <<>>]]
          /\ Goto(p, "_count_status", <<"select">>)

\* _count_status(s): the count of the caller's rows of the next status
_count_status(p) ==
  /\ pc[p] = "_count_status"
  /\ UNCHANGED <<store, nextId, now, req, payload, total_count, environ, client, gateway>>
  /\ LET s == CountedStatuses[Len(summary[p].counts) + 1]
         n == Cardinality({m \in UserRows(req[p].user) : store[m]["status"] = Str(s)})
     IN /\ summary' = [summary EXCEPT ![p].counts = Append(@, n)]
        /\ Goto(p,
                IF Len(summary[p].counts) + 1 = Len(CountedStatuses)
                THEN "last_updated_sel" ELSE "_count_status",
                Append(calls[p], "select"))

\* the updated_at of the row updated last
last_updated_sel(p) ==
  /\ pc[p] = "last_updated_sel"
  /\ UNCHANGED <<store, nextId, now, req, payload, total_count, environ, client, gateway>>
  /\ summary' = [summary EXCEPT ![p] =
                   [last_updated_at |-> LastUpdatedAt(UserRows(req[p].user))] @@ @]
  /\ Goto(p, "added_30_resp", Append(calls[p], "select"))

\* the count of the rows created in the last 30 days
added_30_resp(p) ==
  /\ pc[p] = "added_30_resp"
  /\ UNCHANGED <<store, nextId, now, req, payload, total_count, environ, client, gateway>>
  /\ summary' = [summary EXCEPT ![p] =
                   [added_last_30d |-> Cardinality(Since30Days(UserRows(req[p].user)))] @@ @]
  /\ Goto(p, "stolen_30_resp", Append(calls[p], "select"))

\* the count of the stolen rows created in the last 30 days
stolen_30_resp(p) ==
  /\ pc[p] = "stolen_30_resp"
  /\ UNCHANGED <<store, nextId, now, req, payload, total_count, environ, client, gateway>>
  /\ summary' = [summary EXCEPT ![p] =
                   [stolen_last_30d |->
                      Cardinality({n \in Since30Days(UserRows(req[p].user)) :
                                     store[n]["status"] = Str(sStolen)})] @@ @]
  /\ Goto(p, "cats_resp", Append(calls[p], "select"))

\* the categories of the caller's rows, counted and sorted
cats_resp(p) ==
  /\ pc[p] = "cats_resp"
  /\ UNCHANGED <<store, nextId, now, req, payload, total_count, environ, client, gateway>>
  /\ \E top \in TopCategories(UserRows(req[p].user)) :
       summary' = [summary EXCEPT ![p] = [top_categories |-> top] @@ @]
  /\ Goto(p, "recent_resp", Append(calls[p], "select"))

\* the rows created last, and the summary returned
recent_resp(p) ==
  /\ pc[p] = "recent_resp"
  /\ UNCHANGED <<store, nextId, now, req, payload, total_count, environ, client, gateway>>
  /\ summary' = [summary EXCEPT ![p] = None]
  /\ \E s \in Ordered(UserRows(req[p].user)) :
       Return(p,
              DataResponse(200,
                [totals |-> [total |-> summary[p].total,
                             safe |-> summary[p].counts[1],
                             stolen |-> summary[p].counts[2],
                             unknown |-> summary[p].counts[3]],
                 ratios |-> [safe |-> pct(summary[p].counts[1], summary[p].total),
                             stolen |-> pct(summary[p].counts[2], summary[p].total),
                             unknown |-> pct(summary[p].counts[3], summary[p].total)],
                 last_updated_at |-> summary[p].last_updated_at,
                 recent |-> [added_last_30d |-> summary[p].added_last_30d,
                             stolen_last_30d |-> summary[p].stolen_last_30d],
                 top_categories |-> summary[p].top_categories,
                 recent_items |-> RecentItems(s)]),
              Append(calls[p], "select"))

\* ----------------------------------------------------------------- payments
\* PaystackPaymentAPIView.FEE_NGN
FEE_NGN == 100

amount_kobo == FEE_NGN * 100

sSuccess == <<"s", "u", "c", "c", "e", "s", "s">>

\* uuid.uuid4().hex: 32 hexadecimal digits, two of the values it may take
Uuid4Hexes ==
  {[i \in 1..32 |-> "a"], [i \in 1..32 |-> IF i <= 12 THEN "0" ELSE "f"]}

\* f"{user.id}-{uuid.uuid4().hex[:12]}"
Reference(user, hex) == user.id \o <<"-">> \o SubSeq(hex, 1, 12)

\* the JSON sent to /transaction/initialize
InitializePayload(email, reference) ==
  IF Truthy(environ.PAYSTACK_CALLBACK_URL)
  THEN [email |-> Str(email), amount |-> Num(amount_kobo), currency |-> "NGN",
        reference |-> Str(reference), callback_url |-> environ.PAYSTACK_CALLBACK_URL]
  ELSE [email |-> Str(email), amount |-> Num(amount_kobo), currency |-> "NGN",
        reference |-> Str(reference)]

\* j.get("data") or {}
data_out(j) == IF j.data = None THEN <<>> ELSE j.data

\* the replies of the gateway to an initialize call: a refusal with or without a
\* message, an acceptance with or without data, the reference echoed or left out
InitializeReplies(sent) ==
  {[status |-> Bool(FALSE), message |-> m, data |-> None] : m \in {None, Str(<<"m">>)}}
    \cup {[status |-> Bool(TRUE), message |-> None, data |-> d] :
            d \in {None,
                   [authorization_url |-> Str(<<"u">>), access_code |-> Str(<<"c">>),
                    reference |-> sent.reference],
                   [authorization_url |-> Str(<<"u">>), access_code |-> Str(<<"c">>)]}}

\* the amount sent is the one the client asked for
PaystackPaymentAPIView_post_trusting(p, user, data) ==
  /\ Begin(p, Req("POST /payments/initiate/", user, None, data))
  /\ UNCHANGED <<store, nextId, now, payload, total_count, environ, summary, client>>
  /\ IF ~user.is_authenticated
     THEN /\ Return(p, ErrorResponse(401, Detail("Authentication required")), <<>>)
          /\ UNCHANGED gateway
     ELSE IF ~Truthy(environ.PAYSTACK_SECRET_KEY)
     THEN /\ Return(p, ErrorResponse(500, Detail("PAYSTACK_SECRET_KEY not configured on server")),
                    <<>>)
          /\ UNCHANGED gateway
     ELSE IF GetOrEmpty(data, "email").t # "str"
     THEN /\ Return(p, ErrorResponse(500, Detail("exception")), <<>>)
          /\ UNCHANGED gateway
     ELSE IF Strip(GetOrEmpty(data, "email").v) = <<>>
     THEN /\ Return(p, ErrorResponse(400, Detail("Email is required for payment initialization")),
                    <<>>)
          /\ UNCHANGED gateway
     ELSE \E hex \in Uuid4Hexes :
            /\ gateway' = [gateway EXCEPT ![p] =
                 [sent |-> [InitializePayload(Strip(GetOrEmpty(data, "email").v),
                                              Reference(user, hex))
                              EXCEPT !.amount = IF "amount" \in DOMAIN data
                                                THEN data["amount"] ELSE @],
                  j |-> None]]
            /\ Goto(p, "PaystackPaymentAPIView_post_resp", <<"initialize">>)

\* PaystackPaymentAPIView.post: POST /payments/initiate/ up to the call of the gateway
PaystackPaymentAPIView_post(p, user, data) ==
  /\ Begin(p, Req("POST /payments/initiate/", user, None, data))
  /\ UNCHANGED <<store, nextId, now, payload, total_count, environ, summary, client>>
  /\ IF ~user.is_authenticated
     THEN /\ Return(p, ErrorResponse(401, Detail("Authentication required")), <<>>)
          /\ UNCHANGED gateway
     ELSE IF ~Truthy(environ.PAYSTACK_SECRET_KEY)
     THEN /\ Return(p, ErrorResponse(500, Detail("PAYSTACK_SECRET_KEY not configured on server")),
                    <<>>)
          /\ UNCHANGED gateway
     ELSE IF GetOrEmpty(data, "email").t # "str"
     THEN /\ Return(p, ErrorResponse(500, Detail("exception")), <<>>)
          /\ UNCHANGED gateway
     ELSE IF Strip(GetOrEmpty(data, "email").v) = <<>>
     THEN /\ Return(p, ErrorResponse(400, Detail("Email is required for payment initialization")),
                    <<>>)
          /\ UNCHANGED gateway
     ELSE \E hex \in Uuid4Hexes :
            /\ gateway' = [gateway EXCEPT ![p] =
                 [sent |-> InitializePayload(Strip(GetOrEmpty(data, "email").v),
                                             Reference(user, hex)),
                  j |-> None]]
            /\ Goto(p, "PaystackPaymentAPIView_post_resp", <<"initialize">>)

\* PaystackPaymentAPIView.post: the reply of the gateway, or none, and the answer
PaystackPaymentAPIView_post_resp(p) ==
  /\ pc[p] = "PaystackPaymentAPIView_post_resp"
  /\ UNCHANGED <<store, nextId, now, req, payload, total_count, environ, summary, client>>
  /\ \/ /\ UNCHANGED gateway
        /\ Return(p, ErrorResponse(500, Detail("exception")), calls[p])
     \/ \E j \in InitializeReplies(gateway[p].sent) :
          /\ gateway' = [gateway EXCEPT ![p].j = j]
          /\ IF ~Truthy(j.status)
             THEN Return(p,
                         ErrorResponse(400,
                           [detail |-> IF Truthy(j.message) THEN j.message
                                       ELSE "Failed to initialize payment",
                            payload |-> j]),
                         calls[p])
             ELSE Return(p,
                         DataResponse(200,
                           [authorization_url |-> Param(data_out(j), "authorization_url"),
                            access_code |-> Param(data_out(j), "access_code"),
                            reference |->
                              IF Truthy(Param(data_out(j), "reference"))
                              THEN Param(data_out(j), "reference")
                              ELSE gateway[p].sent.reference,
                            amount |-> Num(amount_kobo)]),
                         calls[p])

\* int(value) succeeds: an int, a float, or a string that reads as an integer
IntConverts(x) == x.t = "float" \/ IntParses(x)

\* int(value): a float loses its decimals
IntOf(x) == IF x.t = "float" THEN x.v \div 100 ELSE IntValue(x)

\* data_out.get("amount") or 0
AmountOrZero(d) == IF Truthy(Param(d, "amount")) THEN Param(d, "amount") ELSE Num(0)

\* the amount is not compared with the fee
verified_by_status(status_str, amount) == status_str = sSuccess

\* status_str == "success" and amount >= (self.FEE_NGN * 100)
verified(status_str, amount) == status_str = sSuccess /\ amount >= FEE_NGN * 100

\* the transaction statuses and amounts a reply of the gateway may carry: the
\* amounts around the fee as integers, as a string and as a float, none, and one
\* that is no number
GatewayStatuses ==
  {None, Str(sSuccess), Str(<<"S", "u", "c", "c", "e", "s", "s">>),
   Str(<<"f", "a", "i", "l", "e", "d">>), Num(5)}

GatewayAmounts ==
  {None, Num(amount_kobo - 1), Num(amount_kobo), Num(amount_kobo + 1),
   Str(DecimalDigits(amount_kobo)), Float(100 * amount_kobo - 1), Str(<<"a", "x">>)}

\* the replies of the gateway to a verify call
VerifyReplies ==
  {[status |-> Bool(FALSE), message |-> Str(<<"m">>), data |-> None],
   [status |-> Bool(TRUE), message |-> None, data |-> None]}
    \cup {[status |-> Bool(TRUE), message |-> None,
           data |-> [status |-> st, amount |-> a, channel |-> Str(<<"c">>)]] :
            st \in GatewayStatuses, a \in GatewayAmounts}

\* PaystackPaymentAPIView.get: GET /payments/verify/ up to the call of the gateway
PaystackPaymentAPIView_get(p, user, params) ==
  /\ Begin(p, Req("GET /payments/verify/", user, None, params))
  /\ UNCHANGED <<store, nextId, now, payload, total_count, environ, summary, client>>
  /\ IF ~user.is_authenticated
     THEN /\ Return(p, ErrorResponse(401, Detail("Authentication required")), <<>>)
          /\ UNCHANGED gateway
     ELSE IF ~Truthy(environ.PAYSTACK_SECRET_KEY)
     THEN /\ Return(p, ErrorResponse(500, Detail("PAYSTACK_SECRET_KEY not configured on server")),
                    <<>>)
          /\ UNCHANGED gateway
     ELSE IF Strip(GetOrEmpty(params, "reference").v) = <<>>
     THEN /\ Return(p, ErrorResponse(400, Detail("reference is required")), <<>>)
          /\ UNCHANGED gateway
     ELSE /\ gateway' = [gateway EXCEPT ![p] =
                           [sent |-> [reference |-> Str(Strip(GetOrEmpty(params, "reference").v))],
                            j |-> None]]
          /\ Goto(p, "PaystackPaymentAPIView_get_resp", <<"verify">>)

\* PaystackPaymentAPIView.get: the reply of the gateway, or none, and the answer
PaystackPaymentAPIView_get_resp(p) ==
  /\ pc[p] = "PaystackPaymentAPIView_get_resp"
  /\ UNCHANGED <<store, nextId, now, req, payload, total_count, environ, summary, client>>
  /\ \/ /\ UNCHANGED gateway
        /\ Return(p, ErrorResponse(500, Detail("exception")), calls[p])
     \/ \E j \in VerifyReplies :
          /\ gateway' = [gateway EXCEPT ![p].j = j]
          /\ IF ~Truthy(j.status)
             THEN Return(p, ErrorResponse(400, [detail |-> j.message, payload |-> j]),
                         calls[p])
             ELSE IF \/ GetOrEmpty(data_out(j), "status").t # "str"
                     \/ ~IntConverts(AmountOrZero(data_out(j)))
             THEN Return(p, ErrorResponse(500, Detail("exception")), calls[p])
             ELSE LET status_str == Lower(GetOrEmpty(data_out(j), "status").v)
                      amount == IntOf(AmountOrZero(data_out(j)))
                  IN Return(p,
                            DataResponse(200,
                              [verified |-> Bool(verified(status_str, amount)),
                               status |-> Str(status_str),
                               amount |-> Num(amount),
                               reference |-> gateway[p].sent.reference,
                               gateway_response |-> Param(data_out(j), "gateway_response"),
                               paid_at |-> Param(data_out(j), "paid_at"),
                               channel |-> Param(data_out(j), "channel")]),
                            calls[p])

\* ---------------------------------------------------------- request bodies
sLost == <<"l", "o", "s", "t">>

\* name and serial_number (padded with blanks) and a user_id the client made up
BodyCreate == [name |-> Str(<<" ", "a", " ">>), serial_number |-> Str(<<"1">>),
               user_id |-> Str(<<"b">>)]

\* every optional kind of field, the status in mixed case
BodyFull == [name |-> Str(<<"x">>), serial_number |-> Str(<<"2">>),
             status |-> Str(<<"S", "T", "o", "l", "e", "n">>),
             fee |-> Str(<<" ", "1", "2">>),
             images |-> Str(<<"x", ",", " ", ",", "a">>)]

BodyBadStatus == [name |-> Str(<<"a">>), serial_number |-> Str(<<"1">>), status |-> Str(sLost)]

BodyOnlyBadStatus == [status |-> Str(sLost)]

BodyEmpty == <<>>

BodyUnrecognized == [user_id |-> Str(<<"a">>), colour |-> Str(<<"x">>)]

BodyDescription == [description |-> Str(<<"x">>)]

BodyBlankName == [name |-> Str(<<" ">>), description |-> Str(<<>>), status |-> Str(sSafe)]

BodyNoImages == [images |-> List(<<>>)]

BodyBlankImages == [images |-> Str(<<" ", ",", " ">>)]

BodyImagesNumber == [images |-> Num(5)]

BodyImagesList == [images |-> List(<<Str(<<"a">>), Num(7)>>)]

BodyEmptyFee == [fee |-> Str(<<>>)]

BodyBadFee == [fee |-> Str(<<"a", "x">>)]

BodyNameNumber == [name |-> Num(5), serial_number |-> Str(<<"1">>)]

BodyNoName == [serial_number |-> Str(<<"1">>)]

BodyBlankSerial == [name |-> Str(<<"a">>), serial_number |-> Str(<<" ">>)]

\* a name that is not a string, and no serial_number
BodyNumberNoSerial == [name |-> Num(5)]

\* name and serial_number and a fee that is not a number
BodyCreateBadFee == [name |-> Str(<<"a">>), serial_number |-> Str(<<"1">>),
                     fee |-> Str(<<"a", "x">>)]

BodyCreateFeeList == [name |-> Str(<<"a">>), serial_number |-> Str(<<"1">>),
                      fee |-> List(<<Num(1)>>)]

Bodies ==
  {BodyCreate, BodyFull, BodyBadStatus, BodyOnlyBadStatus, BodyEmpty, BodyUnrecognized,
   BodyDescription, BodyBlankName, BodyNoImages, BodyBlankImages, BodyImagesNumber,
   BodyImagesList, BodyEmptyFee, BodyBadFee, BodyNameNumber, BodyNoName,
   BodyBlankSerial, BodyNumberNoSerial, BodyCreateBadFee, BodyCreateFeeList}

\* the query parameters of GET /items/
Queries == {<<>>, [limit |-> Str(<<"1">>), offset |-> Str(<<"1">>), query |-> Str(<<"A">>)]}

\* -------------------------------------------------------------- next state
\* request p arrives from an authenticated caller
Arrive(p, creates, updates) ==
  \/ \E user \in Callers, data \in creates : post(p, user, data)
  \/ \E user \in Callers, item_id \in ItemIds : get(p, user, item_id, <<>>)
  \/ \E user \in Callers, params \in Queries : get(p, user, None, params)
  \/ \E user \in Callers, item_id \in ItemIds, data \in updates : patch(p, user, item_id, data)
  \/ \E user \in Callers, item_id \in ItemIds, data \in updates :
       _put_or_patch(p, user, item_id, data)
  \/ \E user \in Callers, item_id \in ItemIds : delete(p, user, item_id)

\* request p arrives without authentication, or on the route without an id
ArriveRejected(p) ==
  \/ post(p, Anonymous, BodyCreate)
  \/ get(p, Anonymous, None, <<>>)
  \/ \E user \in Callers \cup {Anonymous} : patch(p, user, None, BodyDescription)
  \/ \E user \in Callers \cup {Anonymous} : _put_or_patch(p, user, None, BodyCreate)
  \/ \E user \in Callers \cup {Anonymous} : delete(p, user, None)

\* the request in flight makes its next store call
Continue(p) ==
  \/ get_data(p)
  \/ patch_update(p)
  \/ patch_refetch(p)
  \/ _put_or_patch_update(p)
  \/ _put_or_patch_refetch(p)
  \/ delete_delete(p)

\* three concurrent requests of two users
Next ==
  \/ Tick
  \/ \E p \in Requests : Arrive(p, {BodyCreate}, {BodyCreate, BodyDescription})
  \/ \E p \in Requests : ArriveRejected(p)
  \/ \E p \in Requests : Continue(p)

Spec == Init /\ [][Next]_vars

\* the store calls of a request in flight when no row can have disappeared
\* between an update's select and its update
ContinueUndisturbed(p) ==
  \/ get_data(p)
  \/ patch_update(p)
  \/ _put_or_patch_update(p)
  \/ delete_delete(p)

\* two requests with every kind of body: a third request would be needed to
\* delete a row under an update in flight, so no re-fetch happens
NextValidation ==
  \/ Tick
  \/ \E p \in {"r1", "r2"} : Arrive(p, Bodies, Bodies)
  \/ \E p \in {"r1", "r2"} : ArriveRejected(p)
  \/ \E p \in {"r1", "r2"} : ContinueUndisturbed(p)

SpecValidation == Init /\ [][NextValidation]_vars

\* ------------------------------------------------------------------- reads
MaxLimit == 2

\* a registered item that is safe and has a category
BodySafe == [name |-> Str(<<"s">>), serial_number |-> Str(<<"3">>),
             status |-> Str(sSafe), category |-> Str(<<"c">>)]

\* the limit and offset parameters of GET /items/, absent or numerals from 0 on
ListParams ==
  {<<>>} \cup {[limit |-> Str(DecimalDigits(l)), offset |-> Str(DecimalDigits(o))] :
                 l \in 0..MaxLimit, o \in 0..MaxLimit}

sBogus == <<"b", "o", "g", "u", "s">>

\* the bodies of POST /registry/search/: no filter, a status in mixed case, a
\* status outside the enum alone and beside other fields, a status or a query
\* that is a number, a blank status, a query with a page
SearchBodies ==
  {<<>>,
   [status |-> Str(<<"S", "a", "f", "e">>), limit |-> Str(<<"1">>)],
   [status |-> Str(sBogus)],
   [status |-> Str(sBogus), category |-> Str(<<"c">>), serial_number |-> Str(<<"3">>),
    limit |-> Str(<<"0">>), offset |-> Str(<<"1">>), query |-> Str(<<"s">>)],
   [status |-> Str(sBogus), query |-> Num(5)],
   [status |-> Num(5)],
   [status |-> Str(<<" ">>)],
   [query |-> Str(<<"S">>), limit |-> Str(<<"1">>), offset |-> Str(<<"1">>)]}

\* the worker that answered request p takes the next request
Recycle(p) ==
  /\ pc[p] = "done"
  /\ pc' = [pc EXCEPT ![p] = "new"]
  /\ req' = [req EXCEPT ![p] = None]
  /\ resp' = [resp EXCEPT ![p] = None]
  /\ payload' = [payload EXCEPT ![p] = None]
  /\ total_count' = [total_count EXCEPT ![p] = 0]
  /\ calls' = [calls EXCEPT ![p] = <<>>]
  /\ UNCHANGED <<store, nextId, now, environ, summary, client, gateway>>

\* one request at a time: no write is concurrent with a read
NextReads ==
  \/ Tick
  \/ \E user \in Callers, data \in {BodySafe, BodyFull} :
       (user.id = <<"a">> \/ data = BodySafe) /\ post("r1", user, data)
  \/ \E user \in Callers, params \in ListParams : get("r1", user, None, params)
  \/ get_data("r1")
  \/ \E data \in SearchBodies : SearchRegistry_post("r1", data)
  \/ SearchRegistry_post_data("r1")
  \/ \E user \in Callers \cup {Anonymous} : ItemsAnalyticsAPIView_get("r1", user)
  \/ _count_status("r1")
  \/ last_updated_sel("r1")
  \/ added_30_resp("r1")
  \/ stolen_30_resp("r1")
  \/ cats_resp("r1")
  \/ recent_resp("r1")
  \/ Recycle("r1")

SpecReads == Init /\ [][NextReads]_vars

\* ------------------------------------------------------------------ paging
\* a client starts to page through the list of a user, or through the registry,
\* from offset 0
ClientStart(op, user, limit) ==
  /\ client.state = "idle"
  /\ client' = [state |-> "paging", op |-> op, user |-> user, limit |-> limit,
                offset |-> 0, seen |-> {}, repeated |-> FALSE, over |-> FALSE]
  /\ UNCHANGED <<store, nextId, now, pc, req, resp, payload, total_count, calls,
                 environ, summary, gateway>>

\* the limit and offset the client sends
ClientParams ==
  [limit |-> Str(DecimalDigits(client.limit)), offset |-> Str(DecimalDigits(client.offset))]

\* the client issues the request for the page at its offset
ClientRequest ==
  /\ client.state = "paging"
  /\ \/ client.op = "list" /\ get("r1", client.user, None, ClientParams)
     \/ client.op = "search" /\ SearchRegistry_post("r1", ClientParams)

\* the client reads the page and takes next as its offset, or stops at next = null
ClientReceive ==
  /\ client.state = "paging"
  /\ pc["r1"] = "done"
  /\ LET page == resp["r1"].data.v
         ids == {page[i]["id"] : i \in DOMAIN page}
     IN client' = [client EXCEPT
                     !.seen = @ \cup ids,
                     !.repeated = @ \/ ids \cap client.seen # {}
                                    \/ Cardinality(ids) < Len(page),
                     !.over = @ \/ Len(page) > client.limit,
                     !.state = IF resp["r1"].next = None THEN "finished" ELSE "paging",
                     !.offset = IF resp["r1"].next = None THEN @ ELSE resp["r1"].next.v]
  /\ pc' = [pc EXCEPT !["r1"] = "new"]
  /\ req' = [req EXCEPT !["r1"] = None]
  /\ resp' = [resp EXCEPT !["r1"] = None]
  /\ total_count' = [total_count EXCEPT !["r1"] = 0]
  /\ calls' = [calls EXCEPT !["r1"] = <<>>]
  /\ UNCHANGED <<store, nextId, now, payload, environ, summary, gateway>>

\* what the client and the server do while the client pages
Paging ==
  \/ ClientRequest
  \/ get_data("r1")
  \/ SearchRegistry_post_data("r1")
  \/ ClientReceive

\* items are registered, then a client pages: no write is concurrent with it
NextPaging ==
  \/ client.state = "idle" /\ Tick
  \/ \E user \in Callers : client.state = "idle" /\ post("r1", user, BodySafe)
  \/ client.state = "idle" /\ Recycle("r1")
  \/ \E user \in Callers, limit \in 0..MaxLimit :
       pc["r1"] = "new" /\ ClientStart("list", user, limit)
  \/ \E limit \in 0..MaxLimit : pc["r1"] = "new" /\ ClientStart("search", Anonymous, limit)
  \/ Paging

\* every request is answered and the client does not give up
SpecPaging == Init /\ [][NextPaging]_vars /\ WF_vars(Paging)

\* ---------------------------------------------------------------- payments
\* os.environ as the process may have been started
Environs ==
  {Configured,
   [Configured EXCEPT !.PAYSTACK_CALLBACK_URL = None],
   [PAYSTACK_SECRET_KEY |-> None, PAYSTACK_CALLBACK_URL |-> None]}

\* the bodies of POST /payments/initiate/: an email, padded and with an amount, a
\* lower and a higher amount than the fee, no email, an email that is no string
InitiateBodies ==
  {[email |-> Str(<<"e">>)],
   [email |-> Str(<<" ", "e">>), amount |-> Num(1)],
   [email |-> Str(<<"e">>), amount |-> Num(amount_kobo + 1), reference |-> Str(<<"r">>)],
   [amount |-> Num(1)],
   [email |-> Num(5)]}

\* the query parameters of GET /payments/verify/
VerifyQueries == {<<>>, [reference |-> Str(<<" ", "r">>)]}

InitPayments ==
  /\ store = <<>>
  /\ nextId = 1
  /\ now = 0
  /\ pc = [p \in Requests |-> "new"]
  /\ req = [p \in Requests |-> None]
  /\ resp = [p \in Requests |-> None]
  /\ payload = [p \in Requests |-> None]
  /\ total_count = [p \in Requests |-> 0]
  /\ calls = [p \in Requests |-> <<>>]
  /\ environ \in Environs
  /\ summary = [p \in Requests |-> None]
  /\ client = Idle
  /\ gateway = [p \in Requests |-> None]

\* two concurrent payment requests
NextPayments ==
  \/ \E p \in {"r1", "r2"}, user \in Callers \cup {Anonymous}, data \in InitiateBodies :
       PaystackPaymentAPIView_post(p, user, data)
  \/ \E p \in {"r1", "r2"}, user \in Callers \cup {Anonymous}, params \in VerifyQueries :
       PaystackPaymentAPIView_get(p, user, params)
  \/ \E p \in {"r1", "r2"} : PaystackPaymentAPIView_post_resp(p)
  \/ \E p \in {"r1", "r2"} : PaystackPaymentAPIView_get_resp(p)

SpecPayments == InitPayments /\ [][NextPayments]_vars

\* ------------------------------------------------------------ properties
Arrived(p) == pc[p] = "new" /\ pc'[p] # "new"

Answered(p) == pc[p] # "done" /\ pc'[p] = "done"

\* the rows a response carries: the row of a single result, the rows of a page
RowsOf(r) ==
  IF r.data = None THEN {}
  ELSE IF DOMAIN r.data = Columns THEN {r.data}
  ELSE IF DOMAIN r.data = {"t", "v"} THEN {r.data.v[i] : i \in DOMAIN r.data.v}
  ELSE {}

\* some stored row has this id and belongs to somebody other than the caller
OwnedByAnother(item_id, user) ==
  \E n \in DOMAIN store : store[n]["id"] = item_id /\ store[n]["user_id"] # Str(user.id)

\* C1: a GET answers a caller with rows of that caller only, and GET /items/<id>/
\* aimed at an item of another user answers 404 without data.
C1_ReadsAreOwnershipScoped ==
  [][\A p \in Requests :
       (Answered(p) /\ req'[p].method = "GET") =>
         /\ \A row \in RowsOf(resp'[p]) : row["user_id"] = Str(req'[p].user.id)
         /\ (req'[p].item_id # None /\ OwnedByAnother(req'[p].item_id, req'[p].user)) =>
              (resp'[p].status_code = 404 /\ resp'[p].data = None)]_vars

\* a caller has read one item and listed while another user's item was stored
C1_Witness ==
  \E p, q \in Requests :
    /\ pc[p] = "done" /\ req[p].method = "GET" /\ req[p].item_id # None
    /\ OwnedByAnother(req[p].item_id, req[p].user)
    /\ resp[p].status_code = 404
    /\ pc[q] = "done" /\ req[q].method = "GET" /\ req[q].item_id = None
    /\ req[q].user = req[p].user
    /\ resp[q].status_code = 200

Mutating(p) ==
  /\ pc[p] \in {"patch_update", "_put_or_patch_update", "delete_delete"}
  /\ pc'[p] # pc[p]

\* C2: a stored row changes or disappears only in the update or delete step of a
\* request of its owner aimed at its id, and a PATCH, PUT or DELETE aimed at
\* another user's item answers 404 and leaves the table as it was.
C2_WritesAreOwnershipScoped ==
  [][/\ \A n \in DOMAIN store :
          (n \notin DOMAIN store' \/ store'[n] # store[n]) =>
            \E p \in Requests :
              /\ Mutating(p)
              /\ store[n]["user_id"] = Str(req[p].user.id)
              /\ store[n]["id"] = req[p].item_id
     /\ \A p \in Requests :
          (/\ Arrived(p)
           /\ req'[p].method \in {"PATCH", "PUT", "DELETE"}
           /\ req'[p].user.is_authenticated
           /\ req'[p].item_id # None
           /\ OwnedByAnother(req'[p].item_id, req'[p].user)) =>
            /\ pc'[p] = "done"
            /\ resp'[p].status_code = 404
            /\ store' = store]_vars

\* an update or delete aimed at a stored item of another user has been answered 404
C2_Witness ==
  \E p, q \in Requests :
    /\ pc[p] = "done" /\ req[p].method \in {"PATCH", "PUT"}
    /\ req[p].item_id # None /\ OwnedByAnother(req[p].item_id, req[p].user)
    /\ resp[p].status_code = 404
    /\ pc[q] = "done" /\ req[q].method = "DELETE"
    /\ req[q].item_id # None /\ OwnedByAnother(req[q].item_id, req[q].user)
    /\ resp[q].status_code = 404

\* C3: every stored row was inserted by a POST whose caller is the row's user_id,
\* whatever user_id the bodies of that POST and of later updates carried.
C3_UserIdIsTheCreator ==
  \A n \in DOMAIN store :
    \E p \in Requests :
      /\ pc[p] = "done" /\ req[p].method = "POST" /\ resp[p].status_code = 201
      /\ resp[p].data["id"] = store[n]["id"]
      /\ store[n]["user_id"] = Str(req[p].user.id)

\* a row created and then updated with bodies that name another user as user_id
C3_Witness ==
  \E p, q \in Requests :
    /\ pc[p] = "done" /\ req[p].method = "POST" /\ resp[p].status_code = 201
    /\ "user_id" \in DOMAIN req[p].data /\ req[p].data["user_id"] # Str(req[p].user.id)
    /\ pc[q] = "done" /\ req[q].method \in {"PATCH", "PUT"} /\ resp[q].status_code = 200
    /\ req[q].item_id = resp[p].data["id"]
    /\ "user_id" \in DOMAIN req[q].data /\ req[q].data["user_id"] # Str(req[q].user.id)
    /\ resp[q].data # None
    /\ \E n \in DOMAIN store : store[n]["id"] = req[q].item_id

\* p is a DELETE of item_id by user that has been answered 200
DeletedBy(p, user, item_id) ==
  /\ pc[p] = "done" /\ req[p].method = "DELETE"
  /\ req[p].user = user /\ req[p].item_id = item_id
  /\ resp[p].status_code = 200

\* C5: a DELETE of a stored item by its owner goes on to delete it and answers
\* 200 with the id; the same DELETE issued again after that answer is answered
\* 404 at once and leaves the table as it was.
C5_DeleteTwice ==
  [][\A p \in Requests :
       /\ (/\ Arrived(p) /\ req'[p].method = "DELETE"
           /\ req'[p].user.is_authenticated /\ req'[p].item_id # None
           /\ OwnedRows(req'[p].item_id, req'[p].user) # {}) =>
            pc'[p] = "delete_delete"
       /\ (pc[p] = "delete_delete" /\ Answered(p)) =>
            /\ resp'[p].status_code = 200
            /\ resp'[p].data = [id |-> req[p].item_id]
            /\ \A n \in DOMAIN store' : store'[n]["id"] # req[p].item_id
       /\ (/\ Arrived(p) /\ req'[p].method = "DELETE"
           /\ \E q \in Requests : DeletedBy(q, req'[p].user, req'[p].item_id)) =>
            /\ pc'[p] = "done"
            /\ resp'[p].status_code = 404
            /\ store' = store]_vars

\* the second of two DELETEs of one item has been answered 404 after the first
\* had removed the row
C5_Witness ==
  \E p, q \in Requests :
    /\ DeletedBy(p, req[p].user, req[p].item_id)
    /\ calls[p] = <<"select", "delete">>
    /\ pc[q] = "done" /\ req[q].method = "DELETE"
    /\ req[q].user = req[p].user /\ req[q].item_id = req[p].item_id
    /\ resp[q].status_code = 404
    /\ calls[q] = <<"select">>

\* C7: an update or delete of an owner whose row has been deleted between its
\* select and its mutate step is answered with a not found, not with a success.
C7_LateMutationIsNotFound ==
  [][\A p \in Requests :
       (/\ Answered(p)
        /\ \/ pc[p] = "delete_delete" /\ OwnedRows(req[p].item_id, req[p].user) = {}
           \/ pc[p] \in {"patch_refetch", "_put_or_patch_refetch"}) =>
         resp'[p].status_code = 404]_vars

InvalidStatus == Detail("Invalid status. Must be one of: safe, stolen, unknown")

\* the body carries a status that, lower-cased, is none of safe, stolen, unknown
CarriesBadStatus(data) ==
  /\ "status" \in DOMAIN data
  /\ data["status"] = None \/ Lower(PyStr(data["status"])) \notin allowed

ValidStoredStatus(value) == value = None \/ (value.t = "str" /\ value.v \in allowed)

Writes(issued) == \E i \in DOMAIN issued : issued[i] \in {"insert", "update", "delete"}

\* C4 as stated: a finished POST, PATCH or PUT whose body carries a bad status
\* was answered 400 InvalidStatus and wrote nothing, and every stored status is
\* null or one of the three values.
C4_BadStatusIsInvalidStatus ==
  /\ \A p \in Requests :
       (/\ pc[p] = "done" /\ req[p].method \in {"POST", "PATCH", "PUT"}
        /\ CarriesBadStatus(req[p].data)) =>
         /\ resp[p].status_code = 400
         /\ resp[p].error = InvalidStatus
         /\ ~Writes(calls[p])
  /\ \A n \in DOMAIN store : ValidStoredStatus(store[n]["status"])

\* the checks a handler makes before it looks at the status
EarlierChecksPass(r) ==
  /\ r.user.is_authenticated
  /\ r.method # "POST" => (r.item_id # None /\ OwnedRows(r.item_id, r.user) # {})
  /\ \A k \in {"name", "serial_number"} : GetOrEmpty(r.data, k).t = "str"
  /\ r.method \in {"POST", "PUT"} =>
       \A k \in {"name", "serial_number"} : Strip(GetOrEmpty(r.data, k).v) # <<>>

\* C4 as amended: a POST, PATCH or PUT whose body carries a bad status is answered
\* at once with an error and writes nothing; the error is 400 InvalidStatus when
\* the handler's earlier checks pass, the earlier check's error (401, 400 id
\* required, 404, 500, 400 missing fields) otherwise; every stored status is
\* null or one of the three values.
C4_BadStatusIsRejected ==
  [][/\ \A p \in Requests :
          (/\ Arrived(p) /\ req'[p].method \in {"POST", "PATCH", "PUT"}
           /\ CarriesBadStatus(req'[p].data)) =>
            /\ pc'[p] = "done"
            /\ store' = store
            /\ resp'[p].status_code \in {400, 401, 404, 500}
            /\ EarlierChecksPass(req'[p]) =>
                 (resp'[p].status_code = 400 /\ resp'[p].error = InvalidStatus)
     /\ \A n \in DOMAIN store' : ValidStoredStatus(store'[n]["status"])]_vars

\* a status given in mixed case is stored lower-cased, and an update of that row
\* with a bad status has been answered 400 InvalidStatus
C4_Witness ==
  \E p, q \in Requests :
    /\ pc[p] = "done" /\ req[p].method = "POST" /\ resp[p].status_code = 201
    /\ "status" \in DOMAIN req[p].data
    /\ resp[p].data["status"] # req[p].data["status"]
    /\ resp[p].data["status"] = Str(sStolen)
    /\ pc[q] = "done" /\ req[q].method \in {"PATCH", "PUT"}
    /\ req[q].item_id = resp[p].data["id"]
    /\ CarriesBadStatus(req[q].data)
    /\ resp[q].status_code = 400 /\ resp[q].error = InvalidStatus
    /\ \E n \in DOMAIN store : store[n] = resp[p].data

RecognizedFields ==
  {"name", "serial_number", "description", "category", "contact_info", "owner",
   "image_url", "images", "fee", "status"}

\* C6: a finished PATCH of a stored owned item whose body holds no recognized
\* field was answered 400 "No valid fields to update" and issued no update.
C6_EmptyPatchIsRejected ==
  \A p \in Requests :
    (/\ pc[p] = "done" /\ req[p].method = "PATCH"
     /\ req[p].user.is_authenticated /\ req[p].item_id # None
     /\ DOMAIN req[p].data \cap RecognizedFields = {}
     /\ resp[p].status_code # 404) =>
      /\ resp[p].status_code = 400
      /\ resp[p].error = Detail("No valid fields to update")
      /\ ~Writes(calls[p])

\* the response is a validation error: missing required fields or a bad status
ValidationError(r) ==
  /\ r.status_code = 400
  /\ r.error = InvalidStatus \/ "fields" \in DOMAIN r.error

\* C8 as stated: a POST, PATCH or PUT answered with a validation error has
\* issued no store call.
C8_ValidationBeforeAnyStoreCall ==
  \A p \in Requests :
    (/\ pc[p] = "done" /\ req[p].method \in {"POST", "PATCH", "PUT"}
     /\ ValidationError(resp[p])) =>
      calls[p] = <<>>

\* C8 as amended: a POST answered with a validation error has issued no store
\* call; a PATCH or PUT answered with a validation error has issued the
\* existence + ownership select and nothing else.
C8_ValidationBeforeAnyWrite ==
  \A p \in Requests :
    (/\ pc[p] = "done" /\ req[p].method \in {"POST", "PATCH", "PUT"}
     /\ ValidationError(resp[p])) =>
      calls[p] = IF req[p].method = "POST" THEN <<>> ELSE <<"select">>

\* an update of a created row has been answered with a
\* validation error after its select
C8_Witness ==
  \E p, q \in Requests :
    /\ pc[p] = "done" /\ req[p].method = "POST" /\ resp[p].status_code = 201
    /\ pc[q] = "done" /\ req[q].method \in {"PATCH", "PUT"}
    /\ req[q].item_id = resp[p].data["id"]
    /\ ValidationError(resp[q])
    /\ calls[q] = <<"select">>

\* the input is one the claim calls absent
NormalizesToAbsent(field, value) ==
  IF field = "images"
  THEN \/ value = List(<<>>)
       \/ value.t = "str" /\ StripNonEmpty(Split(value.v, ",")) = <<>>
       \/ value.t \notin {"str", "list"}
  ELSE \/ value = Str(<<>>)
       \/ ~FloatParses(value)

\* C9: the update step of a PATCH or PUT whose images or fee input normalizes to
\* absent leaves the stored images or fee of every row as it was.
C9_AbsentInputIsNoOp ==
  [][\A p \in Requests :
       (pc[p] \in {"patch_update", "_put_or_patch_update"} /\ pc'[p] # pc[p]) =>
         \A f \in {"images", "fee"} :
           (f \in DOMAIN req[p].data /\ NormalizesToAbsent(f, req[p].data[f])) =>
             \A n \in DOMAIN store :
               n \in DOMAIN store' /\ store'[n][f] = store[n][f]]_vars

\* C10: PATCH and PUT change the table in their update step only; that step keeps
\* the set of rows, leaves every other row alone and keeps every column of the
\* target whose key is not in the body, updated_at apart; and for the body of
\* every PATCH or PUT, _build_payload with the required fields demanded either
\* reports the missing ones or builds what it builds without the demand.
C10_UpdateIsPartial ==
  [][/\ \A p \in Requests :
          (Arrived(p) /\ req'[p].method \in {"PATCH", "PUT"}) =>
            /\ store' = store
            /\ IF _build_payload(req'[p].data, FALSE, now).kind = "raise"
               THEN _build_payload(req'[p].data, TRUE, now).kind = "raise"
               ELSE IF MissingOf(<<"name", "serial_number">>, Trimmed(req'[p].data)) # <<>>
               THEN /\ _build_payload(req'[p].data, TRUE, now).kind = "err"
                    /\ "fields" \in DOMAIN _build_payload(req'[p].data, TRUE, now).error
               ELSE _build_payload(req'[p].data, TRUE, now)
                      = _build_payload(req'[p].data, FALSE, now)
     /\ \A p \in Requests :
          (pc[p] \in {"patch_refetch", "_put_or_patch_refetch"} /\ pc'[p] # pc[p]) =>
            store' = store
     /\ \A p \in Requests :
          (pc[p] \in {"patch_update", "_put_or_patch_update"} /\ pc'[p] # pc[p]) =>
            /\ DOMAIN store' = DOMAIN store
            /\ \A n \in DOMAIN store :
                 IF store[n]["id"] = req[p].item_id
                 THEN \A c \in Columns \ ({"updated_at"} \cup DOMAIN req[p].data) :
                        store'[n][c] = store[n][c]
                 ELSE store'[n] = store[n]]_vars

\* a PUT without fee, images and status has changed the name of a row and kept
\* the fee, images and status the row was created with
C10_Witness ==
  \E p, q \in Requests :
    /\ pc[p] = "done" /\ req[p].method = "POST" /\ resp[p].status_code = 201
    /\ resp[p].data["fee"] # None /\ resp[p].data["images"] # None
    /\ pc[q] = "done" /\ req[q].method = "PUT" /\ resp[q].status_code = 200
    /\ req[q].item_id = resp[p].data["id"]
    /\ DOMAIN req[q].data \cap {"fee", "images", "status"} = {}
    /\ resp[q].data["name"] # resp[p].data["name"]
    /\ \E n \in DOMAIN store :
         /\ store[n] = resp[q].data
         /\ \A c \in {"fee", "images", "status"} : store[n][c] = resp[p].data[c]

MissingFields(fields) == [detail |-> "Missing required field(s)", fields |-> fields]

\* the field is absent from the body, null or empty, or blank once trimmed
IsMissing(data, k) ==
  \/ k \notin DOMAIN data
  \/ ~Truthy(data[k])
  \/ data[k].t = "str" /\ Strip(data[k].v) = <<>>

\* C11: a POST /items/ of an authenticated caller whose body lacks name or
\* serial_number (absent, empty, or blank once trimmed) is answered at once with
\* 400 and the error "Missing required field(s)" whose fields are the missing
\* ones in the order name, serial_number, and inserts nothing.
C11_MissingFieldsAreListed ==
  [][\A p \in Requests :
       (/\ Arrived(p) /\ req'[p].method = "POST" /\ req'[p].user.is_authenticated
        /\ \E k \in {"name", "serial_number"} : IsMissing(req'[p].data, k)) =>
         /\ pc'[p] = "done"
         /\ resp'[p].status_code = 400
         /\ resp'[p].error =
              MissingFields(SelectSeq(<<"name", "serial_number">>,
                                      LAMBDA k : IsMissing(req'[p].data, k)))
         /\ store' = store /\ calls'[p] = <<>>]_vars

\* the fee of the body is none that float() converts
BadFee(data) ==
  /\ "fee" \in DOMAIN data
  /\ data["fee"] # None /\ data["fee"] # Str(<<>>)
  /\ ~FloatParses(data["fee"])

\* the body has a name and a serial_number that are strings and not blank, and
\* no status or a valid one
ValidRequired(data) ==
  /\ \A k \in {"name", "serial_number"} :
       k \in DOMAIN data /\ data[k].t = "str" /\ Strip(data[k].v) # <<>>
  /\ ~CarriesBadStatus(data)

\* C12: a POST /items/ of an authenticated caller with a valid name and
\* serial_number and a fee that is not a number inserts a row and is answered
\* 201 without error, and the row stored and returned has a null fee.
C12_BadFeeIsDropped ==
  [][\A p \in Requests :
       (/\ Arrived(p) /\ req'[p].method = "POST" /\ req'[p].user.is_authenticated
        /\ ValidRequired(req'[p].data) /\ BadFee(req'[p].data)) =>
         /\ pc'[p] = "done"
         /\ resp'[p].status_code = 201 /\ resp'[p].error = None
         /\ resp'[p].data["fee"] = None
         /\ resp'[p].data["name"] = Str(Strip(req'[p].data["name"].v))
         /\ \E n \in DOMAIN store' \ DOMAIN store : store'[n] = resp'[p].data]_vars

\* a row has been created from a body whose fee is not a number, and another
\* body with a bad status has been refused
C12_Witness ==
  \E p, q \in Requests :
    /\ pc[p] = "done" /\ req[p].method = "POST" /\ resp[p].status_code = 201
    /\ BadFee(req[p].data)
    /\ \E n \in DOMAIN store : store[n] = resp[p].data /\ store[n]["fee"] = None
    /\ pc[q] = "done" /\ req[q].method = "POST" /\ resp[q].error = InvalidStatus

\* the transaction status the gateway reported is "success", in whatever case
ReportedSuccess(d) ==
  /\ "status" \in DOMAIN d
  /\ d["status"].t = "str" /\ Lower(d["status"].v) = sSuccess

\* the amount the gateway reported is a number not below the fee in kobo
ReportedAtLeastFee(d) ==
  /\ "amount" \in DOMAIN d
  /\ \/ d["amount"].t = "num" /\ d["amount"].v >= 100 * FEE_NGN
     \/ d["amount"].t = "float" /\ d["amount"].v >= 100 * 100 * FEE_NGN
     \/ /\ d["amount"].t = "str" /\ d["amount"].v # <<>>
        /\ \A i \in DOMAIN d["amount"].v : IsDigit(d["amount"].v[i])
        /\ DecimalValue(d["amount"].v, 0) >= 100 * FEE_NGN

\* p is a GET /payments/verify/ that the gateway has answered with a transaction
VerifyReported(p) ==
  /\ pc[p] = "done" /\ req[p].method = "GET /payments/verify/"
  /\ gateway[p] # None /\ gateway[p].j # None
  /\ Truthy(gateway[p].j.status)

\* C15: a verify call that the gateway has answered with a transaction is
\* answered verified = true exactly when the status the gateway reported is
\* "success" (the handler lower-cases it) and the amount it reported is at least
\* FEE_NGN * 100; otherwise the answer is verified = false or an error.
C15_VerifiedIffSuccessAndFee ==
  \A p \in Requests :
    VerifyReported(p) =>
      /\ (ReportedSuccess(data_out(gateway[p].j)) /\ ReportedAtLeastFee(data_out(gateway[p].j)))
           <=> (/\ resp[p].status_code = 200
                /\ resp[p].data.verified = Bool(TRUE))
      /\ resp[p].status_code = 200 => resp[p].data.verified \in {Bool(TRUE), Bool(FALSE)}

\* the gateway has reported one transaction as a success below the fee, answered
\* verified = false, and one as a success at the fee, answered verified = true
C15_Witness ==
  \E p, q \in Requests :
    /\ VerifyReported(p) /\ ReportedSuccess(data_out(gateway[p].j))
    /\ gateway[p].j.data["amount"] = Num(100 * FEE_NGN - 1)
    /\ resp[p].status_code = 200 /\ resp[p].data.verified = Bool(FALSE)
    /\ VerifyReported(q) /\ ReportedSuccess(data_out(gateway[q].j))
    /\ gateway[q].j.data["amount"] = Num(100 * FEE_NGN)
    /\ resp[q].status_code = 200 /\ resp[q].data.verified = Bool(TRUE)

HexDigits ==
  {"0", "1", "2", "3", "4", "5", "6", "7", "8", "9", "a", "b", "c", "d", "e", "f"}

\* the reference is the user id, a dash and 12 hexadecimal digits
WellFormedReference(reference, user) ==
  /\ reference.t = "str"
  /\ Len(reference.v) = Len(user.id) + 13
  /\ SubSeq(reference.v, 1, Len(user.id) + 1) = user.id \o <<"-">>
  /\ \A i \in (Len(user.id) + 2)..Len(reference.v) : reference.v[i] \in HexDigits

\* p is a POST /payments/initiate/ that has called the gateway
Initiated(p) ==
  /\ pc[p] # "new" /\ req[p].method = "POST /payments/initiate/"
  /\ gateway[p] # None

\* C16: every initialize call sent to the gateway carries FEE_NGN * 100 as its
\* amount and a reference made of the caller's id, a dash and 12 hexadecimal
\* digits, whatever the body of the request holds, and every initiation answered
\* 200 returns FEE_NGN * 100 as its amount.
C16_AmountIsTheFixedFee ==
  \A p \in Requests :
    /\ Initiated(p) =>
         /\ gateway[p].sent.amount = Num(100 * FEE_NGN)
         /\ WellFormedReference(gateway[p].sent.reference, req[p].user)
    /\ (/\ pc[p] = "done" /\ req[p].method = "POST /payments/initiate/"
        /\ resp[p].status_code = 200) =>
         /\ Initiated(p)
         /\ resp[p].data.amount = Num(100 * FEE_NGN)

\* two initiations of one user, the bodies of which ask for an amount below and
\* above the fee, have been answered 200 with references that differ
C16_Witness ==
  \E p, q \in Requests :
    /\ Initiated(p) /\ Initiated(q) /\ req[p].user = req[q].user
    /\ pc[p] = "done" /\ resp[p].status_code = 200
    /\ pc[q] = "done" /\ resp[q].status_code = 200
    /\ "amount" \in DOMAIN req[p].data /\ req[p].data["amount"].v < 100 * FEE_NGN
    /\ "amount" \in DOMAIN req[q].data /\ req[q].data["amount"].v > 100 * FEE_NGN
    /\ gateway[p].sent.reference # gateway[q].sent.reference
    /\ resp[p].data.reference = gateway[p].sent.reference

\* p is an authenticated GET /items/ that has been answered
ListAnswered(p) ==
  /\ pc[p] = "done" /\ req[p].method = "GET"
  /\ req[p].item_id = None /\ req[p].user.is_authenticated

\* the page the list contract describes for limit, offset and the rows owned
PageOf(r, owned, limit, offset) ==
  /\ r.status_code = 200
  /\ r.count = Num(Cardinality(owned))
  /\ r.data.t = "list"
  /\ Len(r.data.v) = Min(limit, Max(Cardinality(owned) - offset, 0))
  /\ \E s \in Ordered(owned) :
       \A i \in 1..Len(r.data.v) : r.data.v[i] = store[s[offset + i]]
  /\ r.next = IF offset + limit < Cardinality(owned) THEN Num(offset + limit) ELSE None
  /\ r.previous = IF offset > 0 THEN Num(offset - limit) ELSE None

\* C13: with one request at a time, a list request of a user owning N items, with
\* limit (default 30) and offset (default 0), is answered 200 with the items at
\* positions offset .. offset+limit-1 of the user's items by created_at
\* descending, min(limit, max(N-offset, 0)) of them, count = N,
\* next = offset+limit if offset+limit < N else null and
\* previous = offset-limit if offset > 0 else null.
C13_ListPage ==
  \A p \in Requests :
    ListAnswered(p) =>
      PageOf(resp[p], UserRows(req[p].user),
             _parse_int(Param(req[p].data, "limit"), 30),
             _parse_int(Param(req[p].data, "offset"), 0))

\* p is a POST /registry/search/ that has been answered
SearchAnswered(p) == pc[p] = "done" /\ req[p].method = "POST /registry/search/"

\* the body supplies a status that, trimmed and lower-cased, is none of the three
SuppliesBadStatus(data) ==
  /\ "status" \in DOMAIN data
  /\ Truthy(data["status"])
  /\ data["status"].t = "str" =>
       /\ Strip(data["status"].v) # <<>>
       /\ Lower(Strip(data["status"].v)) \notin allowed

\* C14: a search whose body supplies a status that is not one of safe, stolen,
\* unknown after lower-casing is answered 400 InvalidStatus and returns no items,
\* whatever query, category, serial_number, limit and offset the body holds.
C14_BadStatusSearchIsRejected ==
  \A p \in Requests :
    SearchAnswered(p) /\ SuppliesBadStatus(req[p].data) =>
      /\ resp[p].status_code = 400
      /\ resp[p].error = InvalidStatus
      /\ resp[p].data = None

\* p is an authenticated GET /items/analytics/ that has been answered
SummaryAnswered(p) ==
  /\ pc[p] = "done" /\ req[p].method = "GET /items/analytics/"
  /\ req[p].user.is_authenticated

\* the number of the user's items of one status
StatusCount(user, s) ==
  Cardinality({n \in DOMAIN store :
                 store[n]["user_id"] = Str(user.id) /\ store[n]["status"] = Str(s)})

\* ratio is 100 * n / total rounded to two decimals (no hundredth is nearer), 0.0
\* when total is 0
IsRoundedPercentage(ratio, n, total) ==
  /\ ratio.t = "float"
  /\ IF total = 0 THEN ratio.v = 0
     ELSE /\ 2 * (ratio.v * total - 10000 * n) <= total
          /\ 2 * (10000 * n - ratio.v * total) <= total

\* C17: with one request at a time, the summary of a user reports as totals the
\* number of the user's items overall and of each status safe, stolen, unknown,
\* as each ratio 100 * count / total rounded to two decimals, 0.0 for all three
\* when the user has no items, and then a null last_updated_at.
C17_SummaryTotalsAndRatios ==
  \A p \in Requests :
    SummaryAnswered(p) =>
      LET total == Cardinality({n \in DOMAIN store :
                                  store[n]["user_id"] = Str(req[p].user.id)})
          d == resp[p].data
      IN /\ resp[p].status_code = 200
         /\ d.totals = [total |-> total,
                        safe |-> StatusCount(req[p].user, sSafe),
                        stolen |-> StatusCount(req[p].user, sStolen),
                        unknown |-> StatusCount(req[p].user, sUnknown)]
         /\ IsRoundedPercentage(d.ratios.safe, StatusCount(req[p].user, sSafe), total)
         /\ IsRoundedPercentage(d.ratios.stolen, StatusCount(req[p].user, sStolen), total)
         /\ IsRoundedPercentage(d.ratios.unknown, StatusCount(req[p].user, sUnknown), total)
         /\ total = 0 => d.last_updated_at = None

\* the summary of a user with two safe items and a stolen one has been returned
\* with the ratios 66.67, 33.33 and 0.0
C17_Witness ==
  \E p \in Requests :
    /\ SummaryAnswered(p)
    /\ resp[p].data.totals = [total |-> 3, safe |-> 2, stolen |-> 1, unknown |-> 0]
    /\ resp[p].data.ratios =
         [safe |-> Float(6667), stolen |-> Float(3333), unknown |-> Float(0)]

\* the ids of the records that match the client's request
Matching ==
  IF client.op = "list" THEN {store[n]["id"] : n \in UserRows(client.user)}
  ELSE {store[n]["id"] : n \in DOMAIN store}

\* C18: a client that starts at offset 0 and re-issues the request with
\* offset := next, no write being concurrent, reaches next = null after finitely
\* many requests, every page holds at most limit items, and the pages together
\* hold each matching record exactly once.
C18_PagingTerminates ==
  /\ [](client.state # "idle" => ~client.over /\ ~client.repeated)
  /\ [](client.state = "finished" => client.seen = Matching)
  /\ (client.state = "paging") ~> (client.state = "finished")

====
